---- MODULE Spec2Model ----
(***************************************************************************)
(* A model of query/command/command.go of the metrics query engine: the    *)
(* Command implementations (Describe*, Select, Profiling) and, for Select, *)
(* the range negotiation, the widening pass, the evaluation goroutine and  *)
(* the select statement racing it against the context.                     *)
(*                                                                         *)
(* Times of day (time.Time) and durations (time.Duration) are integers in  *)
(* nanoseconds; the fields of an api.Timerange are integers in             *)
(* milliseconds, as in the source.                                         *)
(***************************************************************************)
EXTENDS Integers, Sequences, FiniteSets, TLC

VARIABLES
    pc,                 \* position of the goroutine that runs Execute
    cmd,                \* the command being executed (receiver of Execute)
    context,            \* the ExecutionContext argument
    userTimerange,      \* command.go:199
    slotLimit,          \* command.go:203
    smallestResolution, \* command.go:209
    earliest,           \* *earliest, command.go:217 (shared with WidestMode)
    mutex,              \* widening.Mutex, command.go:225: who holds it
    callers,            \* the calls of ExpressionDescription(widening), by expression
    widenIdx,           \* index of the for loop of command.go:230
    requests,           \* history: the starts the expressions asked for, in order
    widenedStart,       \* earliest.UnixNano()/1e6, the first argument at :234
    widenedTimerange,   \* command.go:234
    chosenResolution,   \* command.go:243
    chosenTimerange,    \* command.go:248
    derived,            \* whether netcontext.WithTimeout was called (:262)
    cancelCalled,       \* whether cancelFunc of the derived context has run
    timerFired,         \* whether the deadline of the derived context passed
    parentCancelled,    \* whether context.Ctx (the caller's own) is done
    results,            \* the channel of command.go:291
    errors,             \* the channel of command.go:292
    taskPc,             \* position of the goroutine of command.go:294
    taskVal,            \* what EvaluateMany returned in that goroutine
    ret,                \* what Execute of the (inner) command returned
    prof,               \* the ProfilingCommand around the command, if any
    outerRet,           \* what ProfilingCommand.Execute returned
    written,            \* history: the channels the task has sent on
    sentBeforeDone,     \* history: the task's send happened while ctx was not done
    deliveredAtFire     \* history: a message was in a channel when the timer fired

vars == <<pc, cmd, context, userTimerange, slotLimit, smallestResolution,
          earliest, mutex, callers, widenIdx, requests, widenedStart, widenedTimerange,
          chosenResolution,
          chosenTimerange, derived, cancelCalled, timerFired, parentCancelled,
          results, errors, taskPc, taskVal, ret, prof, outerRet, written,
          sentBeforeDone, deliveredAtFire>>

----------------------------------------------------------------------------
\* Bounds of the model.

\* The longest list of expressions of a select command.
MaxExprs == 2

\* The latest end (in milliseconds) a select command asks for.
MaxEnd == 7

\* The longest list a metadata backend answers with.
MaxListed == 2

----------------------------------------------------------------------------
\* Constants of the program.

\* defaultLimit := 1000
defaultLimit == 1000

\* time.Millisecond in nanoseconds (the unit of time.Duration); also the 1e6
\* that converts earliest.UnixNano() to milliseconds.
NanosPerMilli == 1000000

\* Capacity of the results and of the errors channel: make(chan ..., 1).
ChanCap == 1

----------------------------------------------------------------------------
\* Inputs.

Starts == {0, 2}
Ends == {1, MaxEnd}
Resolutions == {0, 2}
SlotLimits == {-1, 0, 2, 3, 6}
Timeouts == {-1, 0, 50 * NanosPerMilli}

\* What an expression does with the WidestMode it is described under.
ExprKinds == {"shiftForward", "lookback", "longLookback", "farLookback"}

RECURSIVE SeqsUpTo(_, _)
SeqsUpTo(S, n) ==
    IF n = 0 THEN {<<>>}
    ELSE LET shorter == SeqsUpTo(S, n - 1)
         IN  shorter \cup {Append(s, x) : s \in {t \in shorter : Len(t) = n - 1}, x \in S}

\* The expressions of a select command, told apart by their position only:
\* what one asks of the widening mode and what it evaluates to are its own
\* affair.
ExpressionLists == {[i \in 1..n |-> i] : n \in 0..MaxExprs}

\* Tag sets, predicates (the set of tag sets one applies to), metric names and
\* matchers (the set of names one matches) of the describe commands.
TagSetUniverse == {[host |-> 1], [host |-> 2], [host |-> 2, dc |-> 1]}
Predicates == {TagSetUniverse, {[host |-> 2], [host |-> 2, dc |-> 1]}, {}}
MetricUniverse == {1, 2, 3}
Matchers == {MetricUniverse, {1, 3}}

TagSetLists == SeqsUpTo(TagSetUniverse, MaxListed)
MetricLists == SeqsUpTo(MetricUniverse, MaxListed)

\* Resolutions (time.Duration) a storage backend may answer ChooseResolution with.
BackendResolutions == {NanosPerMilli \div 2, (5 * NanosPerMilli) \div 2, 4 * NanosPerMilli}

\* function.Value: the dynamic type of a value and what its conversions
\* ToSeriesList and ToScalarSet answer (an answer that is not ok is the
\* conversion's error).  A series is the tag set it carries; a tag value is
\* the number it is ordered by in natural order.
ConversionError == [ok |-> FALSE, list |-> <<>>]
Converted(list) == [ok |-> TRUE, list |-> list]

SeriesListValue(series) ==
    [type |-> "SeriesListValue", Series |-> series,
     seriesList |-> Converted(series), scalarSet |-> ConversionError]
ScalarSet(scalars) ==
    [type |-> "ScalarSet", Series |-> <<>>,
     seriesList |-> Converted(scalars), scalarSet |-> Converted(scalars)]
StringValue ==
    [type |-> "StringValue", Series |-> <<>>,
     seriesList |-> ConversionError, scalarSet |-> ConversionError]

\* The values an evaluation may produce.
Values ==
    {SeriesListValue(<<[host |-> 2], [host |-> 1], [host |-> 1, dc |-> 1],
                       [host |-> 3]>>),
     ScalarSet(<<[host |-> 4]>>),
     StringValue}

----------------------------------------------------------------------------
\* Go integer arithmetic.

Abs(a) == IF a < 0 THEN -a ELSE a

\* Go's / on integers truncates towards zero.
GoDiv(a, b) ==
    IF (a < 0) = (b < 0) THEN Abs(a) \div Abs(b) ELSE -(Abs(a) \div Abs(b))

----------------------------------------------------------------------------
\* api.Timerange

ZeroTimerange == [ok |-> FALSE, start |-> 0, end |-> 0, resolution |-> 0]

\* Rounds n to the nearest multiple of boundary (boundary > 0).
RECURSIVE snap(_, _)
snap(n, boundary) ==
    IF n < 0 THEN -snap(-n, boundary)
    ELSE ((n + boundary \div 2) \div boundary) * boundary

NewTimerange(start, end, resolution) ==
    IF resolution <= 0 \/ start > end THEN ZeroTimerange
    ELSE [ok |-> TRUE, start |-> start, end |-> end, resolution |-> resolution]

NewSnappedTimerange(start, end, resolution) ==
    IF resolution <= 0 THEN ZeroTimerange
    ELSE NewTimerange(snap(start, resolution), snap(end, resolution), resolution)

Slots(tr) == (tr.end - tr.start) \div tr.resolution + 1

\* Timerange.Duration(): a time.Duration.
Duration(tr) == (tr.end - tr.start) * NanosPerMilli

StartMillis(tr) == tr.start
EndMillis(tr) == tr.end
ResolutionMillis(tr) == tr.resolution

----------------------------------------------------------------------------
\* time.Time.  An instant is its Unix time in nanoseconds; beyond marks an
\* instant earlier than any an int64 of nanoseconds can hold (before the year
\* 1678), for which UnixNano() is documented as undefined.

TimeOf(ns) == [beyond |-> FALSE, ns |-> ns]
BeyondTime == [beyond |-> TRUE, ns |-> 0]

\* Timerange.Start(): the instant of the range's start.
StartTime(tr) == TimeOf(tr.start * NanosPerMilli)

\* t.Before(u)
Before(t, u) ==
    IF t.beyond THEN ~u.beyond
    ELSE ~u.beyond /\ t.ns < u.ns

\* The values t.UnixNano() may return.  For an instant outside the years an
\* int64 of nanoseconds covers the result is undefined (the sum wraps): it may
\* be any int64, so any millisecond before, within and after the ranges of the
\* model.
UndefinedUnixNanos == {n * NanosPerMilli : n \in (-2)..(MaxEnd + 2)}
UnixNano(t) == IF t.beyond THEN UndefinedUnixNanos ELSE {t.ns}

----------------------------------------------------------------------------
\* function.WidestMode: the description mode under which an expression asks
\* for data from before the start of the range.

\* The start an expression of this kind needs when described at `current`.
WidenRequest(kind, current) ==
    CASE kind = "shiftForward" -> TimeOf(current.ns + NanosPerMilli)
      [] kind = "lookback"     -> TimeOf(current.ns - (3 * NanosPerMilli) \div 2)
      [] kind = "longLookback" -> TimeOf(current.ns - 4 * NanosPerMilli)
      [] kind = "farLookback"  -> BeyondTime

\* mode.Mutex, a sync.Mutex: held by no caller, or by the caller (the position
\* of its expression) whose Lock() returned last.
NoHolder == 0

\* mode.Mutex.Lock() returns only while no caller holds the mutex.
LocksWithoutExclusion(holder) == holder = holder
CanLock(holder) == holder = NoHolder

\* A call of ExpressionDescription(widening) that has just been made: it is
\* about to lock the mutex, and has not yet compared the start it needs.
NewCall(request) == [pc |-> "lock", request |-> request, lower |-> FALSE]

\* Whether every call made so far has returned.
AllReturned(calls) == \A i \in DOMAIN calls : calls[i].pc = "returned"

\* The compare-and-lower of *mode.Earliest, in the two steps a caller takes
\* while it holds mode.Mutex: the comparison with the value it reads, and the
\* store it makes when the comparison found its start earlier.
IsEarlier(requested, held) == Before(requested, held)
Lowered(held, requested, lower) == IF lower THEN requested ELSE held

----------------------------------------------------------------------------
\* Results and errors.

\* A nil Body and a nil Metadata map; a Metadata map that is not nil is the
\* function from its keys to their values.
NilBody == [kind |-> "nil"]
NilMetadata == [kind |-> "nil"]

EmptyResult == [Body |-> NilBody, Metadata |-> NilMetadata]

NoError == [type |-> "nil"]
InvalidRangeError == [type |-> "InvalidRange"]
BackendError == [type |-> "Backend"]
EvaluationError == [type |-> "Evaluation"]
TypeMismatchError(i) == [type |-> "TypeMismatch", expression |-> i]

\* function.NewLimitError(message, actual, limit)
NewLimitError(message, actual, limit) ==
    [type |-> "Limit", message |-> message, actual |-> actual, limit |-> limit]

SlotMessage == "Requested number of data points exceeds the configured limit"
TimeoutMessage == "Timeout while executing the query."

----------------------------------------------------------------------------
\* The context Execute waits on: the derived one when a timeout is configured,
\* else the caller's own (command.go:259-263).  A derived context is done when
\* its deadline passed, when its cancel function ran, or when its parent is done.
CtxAlwaysDone == TRUE
CtxDone ==
    \/ parentCancelled
    \/ derived /\ (timerFired \/ cancelCalled)

Delivered == Len(results) > 0 \/ Len(errors) > 0

\* Whether a send on a channel made by make(chan ..., 1) proceeds: it does
\* while the buffer has room.  (On an unbuffered channel it would proceed
\* only while the receiver is waiting in its select statement.)
CanSendUnbuffered(channel) == pc = "select" /\ Len(channel) = 0
CanSend(channel) == Len(channel) < ChanCap

----------------------------------------------------------------------------
Init ==
    /\ pc = "idle"
    /\ cmd = [kind |-> "none"]
    /\ context = [SlotLimit |-> 0, Timeout |-> 0,
                  AdditionalConstraints |-> TagSetUniverse]
    /\ userTimerange = ZeroTimerange
    /\ slotLimit = 0
    /\ smallestResolution = 0
    /\ earliest = TimeOf(0)
    /\ mutex = NoHolder
    /\ callers = <<>>
    /\ widenIdx = 0
    /\ requests = <<>>
    /\ widenedStart = 0
    /\ widenedTimerange = ZeroTimerange
    /\ chosenResolution = 0
    /\ chosenTimerange = ZeroTimerange
    /\ derived = FALSE
    /\ cancelCalled = FALSE
    /\ timerFired = FALSE
    /\ parentCancelled = FALSE
    /\ results = <<>>
    /\ errors = <<>>
    /\ taskPc = "none"
    /\ taskVal = <<>>
    /\ ret = [result |-> EmptyResult, err |-> NoError]
    /\ prof = [wrapped |-> FALSE, spanOpen |-> FALSE, pc |-> "none",
               span |-> <<>>, profiles |-> <<>>]
    /\ outerRet = [result |-> EmptyResult, err |-> NoError]
    /\ written = {}
    /\ sentBeforeDone = FALSE
    /\ deliveredAtFire = FALSE

\* The deferred cancelFunc() of command.go:265-269, run by every return that
\* follows it: whether the cancel function has been called once Execute is left.
NoDeferredCancel(created, called) == called
DeferredCancel(created, called) == created \/ called

\* return result, err
Return(result, err) ==
    /\ pc' = "returned"
    /\ ret' = [result |-> result, err |-> err]
    /\ cancelCalled' = DeferredCancel(derived, cancelCalled)

\* slotLimit := context.SlotLimit; if slotLimit == 0 { slotLimit = defaultLimit }
EffectiveSlotLimit(configured) ==
    IF configured = 0 THEN defaultLimit ELSE configured

\* earliest := new(time.Time); *earliest = userTimerange.Start()
InitialEarliestEnd(tr) == TimeOf(tr.end * NanosPerMilli)
InitialEarliest(tr) == StartTime(tr)

\* smallestResolution := userTimerange.Duration() / time.Duration(slotLimit-2),
\* for slotLimit - 2 other than zero.
SmallestResolutionWithoutMargin(tr, limit) == GoDiv(Duration(tr), limit)
SmallestResolution(tr, limit) == GoDiv(Duration(tr), limit - 2)

\* SelectCommand.Execute, command.go:199-226: the user's range is snapped,
\* the slot limit defaulted, the smallest resolution computed (a division by
\* zero panics) and the widening mode set up.
SelectBegin(start, end, resolution, expressions, limit, timeout) ==
    /\ pc = "idle"
    /\ cmd' = [kind |-> "select", Start |-> start, End |-> end,
               Resolution |-> resolution, Expressions |-> expressions]
    /\ context' = [SlotLimit |-> limit, Timeout |-> timeout,
                   AdditionalConstraints |-> TagSetUniverse]
    /\ LET tr == NewSnappedTimerange(start, end, resolution)
           lim == EffectiveSlotLimit(limit)
       IN  IF ~tr.ok
           THEN /\ Return(EmptyResult, InvalidRangeError)
                /\ UNCHANGED <<userTimerange, slotLimit, smallestResolution,
                               earliest, mutex, callers, widenIdx, requests>>
           ELSE /\ userTimerange' = tr
                /\ slotLimit' = lim
                /\ UNCHANGED <<ret, cancelCalled>>
                /\ IF lim - 2 = 0
                   THEN /\ pc' = "panicked"
                        /\ UNCHANGED <<smallestResolution, earliest, mutex,
                                       callers, widenIdx, requests>>
                   ELSE /\ smallestResolution' = SmallestResolution(tr, lim)
                        /\ earliest' = InitialEarliest(tr)
                        /\ mutex' = NoHolder
                        /\ callers' = <<>>
                        /\ widenIdx' = 1
                        /\ requests' = <<>>
                        /\ pc' = "widening"
    /\ UNCHANGED <<prof, outerRet, written>>
    /\ UNCHANGED <<widenedStart, widenedTimerange, chosenResolution,
                   chosenTimerange, derived, timerFired, parentCancelled,
                   results, errors, taskPc, taskVal, sentBeforeDone,
                   deliveredAtFire>>

\* for _, expression := range cmd.Expressions: whether the loop is over.
WideningOver(i, expressions) == i > Len(expressions)

\* The next expression of the list is described under the widening mode: it
\* works out the start it needs and calls into the mode.
Describe ==
    /\ pc = "widening"
    /\ ~WideningOver(widenIdx, cmd.Expressions)
    /\ \E kind \in ExprKinds :
          LET request == WidenRequest(kind, StartTime(userTimerange))
          IN  /\ callers' = Append(callers, NewCall(request))
              /\ requests' = Append(requests, request)
    /\ widenIdx' = widenIdx + 1
    /\ UNCHANGED <<earliest, mutex>>
    /\ UNCHANGED <<prof, outerRet, written>>
    /\ UNCHANGED <<pc, cmd, context, userTimerange, slotLimit, smallestResolution,
                   widenedStart, widenedTimerange, chosenResolution,
                   chosenTimerange, derived, cancelCalled, timerFired,
                   parentCancelled, results, errors, taskPc, taskVal, ret,
                   sentBeforeDone, deliveredAtFire>>

\* command.go:230-232, one iteration of the loop: the call for an expression
\* is made when the call for the one before it has returned.
Widen ==
    /\ AllReturned(callers)
    /\ Describe

\* The widening mode in general use: a call is made while another has not
\* returned.
WidenConcurrently ==
    /\ ~AllReturned(callers)
    /\ Describe

\* mode.Mutex.Lock() in the call for expression i.
WidestLock(i) ==
    /\ pc = "widening"
    /\ i \in DOMAIN callers
    /\ callers[i].pc = "lock"
    /\ CanLock(mutex)
    /\ mutex' = i
    /\ callers' = [callers EXCEPT ![i].pc = "compare"]
    /\ UNCHANGED <<earliest, widenIdx, requests>>
    /\ UNCHANGED <<prof, outerRet, written>>
    /\ UNCHANGED <<pc, cmd, context, userTimerange, slotLimit, smallestResolution,
                   widenedStart, widenedTimerange, chosenResolution,
                   chosenTimerange, derived, cancelCalled, timerFired,
                   parentCancelled, results, errors, taskPc, taskVal, ret,
                   sentBeforeDone, deliveredAtFire>>

\* The call reads *mode.Earliest and compares it with the start it needs.
WidestCompare(i) ==
    /\ pc = "widening"
    /\ i \in DOMAIN callers
    /\ callers[i].pc = "compare"
    /\ callers' = [callers EXCEPT ![i].pc = "store",
                                  ![i].lower = IsEarlier(callers[i].request, earliest)]
    /\ UNCHANGED <<earliest, mutex, widenIdx, requests>>
    /\ UNCHANGED <<prof, outerRet, written>>
    /\ UNCHANGED <<pc, cmd, context, userTimerange, slotLimit, smallestResolution,
                   widenedStart, widenedTimerange, chosenResolution,
                   chosenTimerange, derived, cancelCalled, timerFired,
                   parentCancelled, results, errors, taskPc, taskVal, ret,
                   sentBeforeDone, deliveredAtFire>>

\* *mode.Earliest = the start it needs, when the comparison found it earlier.
WidestStore(i) ==
    /\ pc = "widening"
    /\ i \in DOMAIN callers
    /\ callers[i].pc = "store"
    /\ earliest' = Lowered(earliest, callers[i].request, callers[i].lower)
    /\ callers' = [callers EXCEPT ![i].pc = "unlock"]
    /\ UNCHANGED <<mutex, widenIdx, requests>>
    /\ UNCHANGED <<prof, outerRet, written>>
    /\ UNCHANGED <<pc, cmd, context, userTimerange, slotLimit, smallestResolution,
                   widenedStart, widenedTimerange, chosenResolution,
                   chosenTimerange, derived, cancelCalled, timerFired,
                   parentCancelled, results, errors, taskPc, taskVal, ret,
                   sentBeforeDone, deliveredAtFire>>

\* mode.Mutex.Unlock(), and the call returns.
WidestUnlock(i) ==
    /\ pc = "widening"
    /\ i \in DOMAIN callers
    /\ callers[i].pc = "unlock"
    /\ mutex' = NoHolder
    /\ callers' = [callers EXCEPT ![i].pc = "returned"]
    /\ UNCHANGED <<earliest, widenIdx, requests>>
    /\ UNCHANGED <<prof, outerRet, written>>
    /\ UNCHANGED <<pc, cmd, context, userTimerange, slotLimit, smallestResolution,
                   widenedStart, widenedTimerange, chosenResolution,
                   chosenTimerange, derived, cancelCalled, timerFired,
                   parentCancelled, results, errors, taskPc, taskVal, ret,
                   sentBeforeDone, deliveredAtFire>>

\* if err != nil { widenedTimerange = userTimerange }
WidenedAsSnapped(snapped, user) == snapped
WidenedOrFallback(snapped, user) == IF snapped.ok THEN snapped ELSE user

\* command.go:234-240: the widened range, or the user's when it is invalid.
BuildWidened ==
    /\ pc = "widening"
    /\ WideningOver(widenIdx, cmd.Expressions)
    /\ AllReturned(callers)
    /\ \E nanos \in UnixNano(earliest) :
          /\ widenedStart' = GoDiv(nanos, NanosPerMilli)
          /\ widenedTimerange' =
                WidenedOrFallback(
                    NewSnappedTimerange(GoDiv(nanos, NanosPerMilli),
                                        EndMillis(userTimerange),
                                        ResolutionMillis(userTimerange)),
                    userTimerange)
    /\ pc' = "chooseResolution"
    /\ UNCHANGED <<prof, outerRet, written>>
    /\ UNCHANGED <<cmd, context, userTimerange, slotLimit, smallestResolution,
                   earliest, mutex, callers, widenIdx, requests, chosenResolution, chosenTimerange,
                   derived, cancelCalled, timerFired, parentCancelled, results,
                   errors, taskPc, taskVal, ret, sentBeforeDone, deliveredAtFire>>

\* command.go:243-246: the storage backend chooses a resolution, or fails.
ChooseResolution ==
    /\ pc = "chooseResolution"
    /\ \/ /\ Return(EmptyResult, BackendError)
          /\ UNCHANGED chosenResolution
       \/ /\ \E r \in BackendResolutions \cup {smallestResolution} :
                chosenResolution' = r
          /\ pc' = "snapChosen"
          /\ UNCHANGED <<ret, cancelCalled>>
    /\ UNCHANGED <<prof, outerRet, written>>
    /\ UNCHANGED <<cmd, context, userTimerange, slotLimit, smallestResolution,
                   earliest, mutex, callers, widenIdx, requests, widenedStart, widenedTimerange,
                   chosenTimerange, derived, timerFired, parentCancelled,
                   results, errors, taskPc, taskVal, sentBeforeDone,
                   deliveredAtFire>>

\* if chosenTimerange.Slots() > slotLimit
SlotsOverLimitUncounted(tr, limit) == (tr.end - tr.start) \div tr.resolution > limit
SlotsOverLimit(tr, limit) == Slots(tr) > limit

\* chosenTimerange, err := api.NewSnappedTimerange(userTimerange.StartMillis(),
\* userTimerange.EndMillis(), int64(chosenResolution/time.Millisecond))
ChosenFromWidened(user, widened, resolution) ==
    NewSnappedTimerange(StartMillis(widened), EndMillis(widened),
                        GoDiv(resolution, NanosPerMilli))
ChosenTimerangeOf(user, widened, resolution) ==
    NewSnappedTimerange(StartMillis(user), EndMillis(user),
                        GoDiv(resolution, NanosPerMilli))

\* command.go:248-257: the user's range at the chosen resolution, and the
\* check of its slots against the limit.
SnapChosen ==
    /\ pc = "snapChosen"
    /\ LET tr == ChosenTimerangeOf(userTimerange, widenedTimerange, chosenResolution)
       IN  /\ chosenTimerange' = tr
           /\ IF ~tr.ok
              THEN Return(EmptyResult, InvalidRangeError)
              ELSE IF SlotsOverLimit(tr, slotLimit)
              THEN Return(EmptyResult, NewLimitError(SlotMessage, Slots(tr), slotLimit))
              ELSE /\ pc' = "startEvaluation"
                   /\ UNCHANGED <<ret, cancelCalled>>
    /\ UNCHANGED <<prof, outerRet, written>>
    /\ UNCHANGED <<cmd, context, userTimerange, slotLimit, smallestResolution,
                   earliest, mutex, callers, widenIdx, requests, widenedStart, widenedTimerange,
                   chosenResolution, derived, timerFired, parentCancelled,
                   results, errors, taskPc, taskVal, sentBeforeDone,
                   deliveredAtFire>>

\* if context.Timeout != 0 { ctx, cancelFunc = netcontext.WithTimeout(...) }
NeverDerivesContext(timeout) == FALSE
DerivesContext(timeout) == timeout /= 0

\* command.go:259-302: the context to wait on is derived when a timeout is
\* configured (its cancel function deferred), the evaluation context is built,
\* the two channels are made and the evaluation goroutine is started.  The
\* widening mode and the widened range are not read from here on and leave
\* the state.
StartEvaluation ==
    /\ pc = "startEvaluation"
    /\ derived' = DerivesContext(context.Timeout)
    /\ timerFired' = (context.Timeout < 0)
    /\ results' = <<>>
    /\ errors' = <<>>
    /\ taskPc' = "evaluating"
    /\ pc' = "select"
    /\ earliest' = TimeOf(0)
    /\ mutex' = NoHolder
    /\ callers' = <<>>
    /\ widenIdx' = 0
    /\ requests' = <<>>
    /\ widenedStart' = 0
    /\ widenedTimerange' = ZeroTimerange
    /\ UNCHANGED <<prof, outerRet, written>>
    /\ UNCHANGED <<cmd, context, userTimerange, slotLimit, smallestResolution,
                   chosenResolution, chosenTimerange, cancelCalled,
                   parentCancelled, taskVal, ret, sentBeforeDone,
                   deliveredAtFire>>

\* The lists of values function.EvaluateMany may return for n expressions.
EvaluationResults(n) == [1..n -> Values]

\* command.go:296: EvaluateMany returns in the goroutine.
EvaluateReturns ==
    /\ taskPc = "evaluating"
    /\ \/ /\ taskVal' = EvaluationError
          /\ taskPc' = "sendError"
       \/ /\ \E values \in EvaluationResults(Len(cmd.Expressions)) :
                taskVal' = values
          /\ taskPc' = "sendResult"
    /\ UNCHANGED <<prof, outerRet, written>>
    /\ UNCHANGED <<pc, cmd, context, userTimerange, slotLimit, smallestResolution,
                   earliest, mutex, callers, widenIdx, requests, widenedStart, widenedTimerange,
                   chosenResolution, chosenTimerange, derived, cancelCalled,
                   timerFired, parentCancelled, results, errors, ret,
                   sentBeforeDone, deliveredAtFire>>

\* errors <- err, command.go:298: proceeds when the channel has room.
TaskSendError ==
    /\ taskPc = "sendError"
    /\ CanSend(errors)
    /\ errors' = Append(errors, taskVal)
    /\ taskPc' = "done"
    /\ sentBeforeDone' = ~CtxDone
    /\ written' = written \cup {"errors"}
    /\ UNCHANGED <<prof, outerRet>>
    /\ UNCHANGED <<pc, cmd, context, userTimerange, slotLimit, smallestResolution,
                   earliest, mutex, callers, widenIdx, requests, widenedStart, widenedTimerange,
                   chosenResolution, chosenTimerange, derived, cancelCalled,
                   timerFired, parentCancelled, results, taskVal, ret,
                   deliveredAtFire>>

\* results <- result, command.go:301: proceeds when the channel has room.
TaskSendResult ==
    /\ taskPc = "sendResult"
    /\ CanSend(results)
    /\ results' = Append(results, taskVal)
    /\ taskPc' = "done"
    /\ sentBeforeDone' = ~CtxDone
    /\ written' = written \cup {"results"}
    /\ UNCHANGED <<prof, outerRet>>
    /\ UNCHANGED <<pc, cmd, context, userTimerange, slotLimit, smallestResolution,
                   earliest, mutex, callers, widenIdx, requests, widenedStart, widenedTimerange,
                   chosenResolution, chosenTimerange, derived, cancelCalled,
                   timerFired, parentCancelled, errors, taskVal, ret,
                   deliveredAtFire>>

\* The deadline of the derived context passes; cancelFunc stops the timer.
TimeoutFires ==
    /\ derived
    /\ ~timerFired
    /\ ~cancelCalled
    /\ timerFired' = TRUE
    /\ deliveredAtFire' = Delivered
    /\ UNCHANGED <<prof, outerRet, written>>
    /\ UNCHANGED <<pc, cmd, context, userTimerange, slotLimit, smallestResolution,
                   earliest, mutex, callers, widenIdx, requests, widenedStart, widenedTimerange,
                   chosenResolution, chosenTimerange, derived, cancelCalled,
                   parentCancelled, results, errors, taskPc, taskVal, ret,
                   sentBeforeDone>>

\* The owner of context.Ctx cancels it (or its own deadline passes).  Execute
\* reads that context only from command.go:262 on, so a cancellation before
\* the call or earlier in it is the one that precedes every other step of the
\* wait.
ParentCancel ==
    /\ ~parentCancelled
    /\ pc = "select"
    /\ parentCancelled' = TRUE
    /\ UNCHANGED <<prof, outerRet, written>>
    /\ UNCHANGED <<pc, cmd, context, userTimerange, slotLimit, smallestResolution,
                   earliest, mutex, callers, widenIdx, requests, widenedStart, widenedTimerange,
                   chosenResolution, chosenTimerange, derived, cancelCalled,
                   timerFired, results, errors, taskPc, taskVal, ret,
                   sentBeforeDone, deliveredAtFire>>

\* function.NewLimitError("Timeout while executing the query.", context.Timeout,
\* context.Timeout)
TimeoutErrorWithoutValue(timeout) == NewLimitError(TimeoutMessage, 0, timeout)
TimeoutError(timeout) == NewLimitError(TimeoutMessage, timeout, timeout)

\* case <-ctx.Done(), command.go:304-305.
SelectDone ==
    /\ pc = "select"
    /\ CtxDone
    /\ Return(EmptyResult, TimeoutError(context.Timeout))
    /\ UNCHANGED <<prof, outerRet, written>>
    /\ UNCHANGED <<cmd, context, userTimerange, slotLimit, smallestResolution,
                   earliest, mutex, callers, widenIdx, requests, widenedStart, widenedTimerange,
                   chosenResolution, chosenTimerange, derived, timerFired,
                   parentCancelled, results, errors, taskPc, taskVal,
                   sentBeforeDone, deliveredAtFire>>

\* case err := <-errors, command.go:306-307.
SelectError ==
    /\ pc = "select"
    /\ Len(errors) > 0
    /\ errors' = Tail(errors)
    /\ Return(EmptyResult, Head(errors))
    /\ UNCHANGED <<prof, outerRet, written>>
    /\ UNCHANGED <<cmd, context, userTimerange, slotLimit, smallestResolution,
                   earliest, mutex, callers, widenIdx, requests, widenedStart, widenedTimerange,
                   chosenResolution, chosenTimerange, derived, timerFired,
                   parentCancelled, results, taskPc, taskVal, sentBeforeDone,
                   deliveredAtFire>>

\* command.go:338-357, one value: its QueryResult, or none when the value is
\* neither a series list nor convertible to a scalar set.
\* list, ok := result[i].(function.SeriesListValue)
ConvertsToSeriesList(value) == value.seriesList.ok
IsSeriesListValue(value) == value.type = "SeriesListValue"

\* value.ToSeriesList(timerange) and value.ToScalarSet()
ToSeriesList(value, tr) == value.seriesList
ToScalarSet(value) == value.scalarSet

IsClassified(value) == IsSeriesListValue(value) \/ ToScalarSet(value).ok

\* Query and Name are the descriptions of cmd.Expressions[i].
QueryResultOf(value, i, tr) ==
    IF IsSeriesListValue(value)
    THEN [Type |-> "series", Expression |-> i, Series |-> value.Series,
          Timerange |-> tr, Scalars |-> <<>>]
    ELSE [Type |-> "scalars", Expression |-> i, Series |-> <<>>,
          Timerange |-> ZeroTimerange, Scalars |-> ToScalarSet(value).list]

\* The index of the first value that cannot be classified, 0 when there is none.
FirstMismatch(values) ==
    IF \A i \in DOMAIN values : IsClassified(values[i]) THEN 0
    ELSE CHOOSE i \in DOMAIN values :
            /\ ~IsClassified(values[i])
            /\ \A j \in 1..(i - 1) : IsClassified(values[j])

\* sort.Sort on a list: the same elements, ascending.  The element at
\* index i goes to the place given by the number of elements that come
\* before it in the order (of equal elements, those at a lower index).
\* The list is bound once, as given, so that it is evaluated a single time.
Sort(list) ==
    LET sorted[given \in {list}] ==
            LET place(i) ==
                    Cardinality({j \in DOMAIN given :
                                    \/ given[j] < given[i]
                                    \/ given[j] = given[i] /\ j <= i})
            IN  [k \in DOMAIN given |->
                    given[CHOOSE i \in DOMAIN given : place(i) = k]]
    IN  sorted[list]

\* command.go:310-321, the outer loops: the tag sets of the series of every
\* value that ToSeriesList converts, in the order they are visited.
RECURSIVE DescribedSeries(_, _)
DescribedSeries(values, tr) ==
    IF values = <<>> THEN <<>>
    ELSE LET listValue == ToSeriesList(Head(values), tr)
         IN  (IF listValue.ok THEN listValue.list ELSE <<>>)
                 \o DescribedSeries(Tail(values), tr)

\* description[key] = append(description[key], value), over those tag sets.
Appended(tagsets, key) ==
    LET valueOf[having \in {SelectSeq(tagsets, LAMBDA tagset : key \in DOMAIN tagset)}] ==
            [i \in DOMAIN having |-> having[i][key]]
    IN  valueOf[SelectSeq(tagsets, LAMBDA tagset : key \in DOMAIN tagset)]

\* natural_sort.Sort(values): tag values are the numbers they are ordered by.
NaturalSort(values) == Sort(values)

\* command.go:324-329: values[i] is kept when i == 0 or values[i-1] != values[i].
Unfiltered(values) == values
AdjacentFiltered(values) ==
    LET filtered[given \in {values}] ==
            LET kept == {i \in DOMAIN given : i = 1 \/ given[i - 1] /= given[i]}
                nth(k) == CHOOSE i \in kept : Cardinality({j \in kept : j <= i}) = k
            IN  [k \in 1..Cardinality(kept) |-> given[nth(k)]]
    IN  filtered[values]

\* The description map of command.go:309-331.
Description(values, tr) ==
    LET described[tagsets \in {DescribedSeries(values, tr)}] ==
            [key \in UNION {DOMAIN tagsets[i] : i \in DOMAIN tagsets} |->
                AdjacentFiltered(NaturalSort(Appended(tagsets, key)))]
    IN  described[DescribedSeries(values, tr)]

\* The Result of command.go:360-367; notes stands for what
\* evaluationContext.Notes() returns.
SelectResultOf(values, tr, resolution) ==
    [Body |-> [kind |-> "queryResults",
               list |-> [i \in DOMAIN values |-> QueryResultOf(values[i], i, tr)]],
     Metadata |-> [description |-> Description(values, tr),
                   notes |-> "notes",
                   resolution |-> resolution]]

\* What is returned with the error of command.go:357.
PartialResult(values, i, tr, resolution) ==
    SelectResultOf(SubSeq(values, 1, i - 1), tr, resolution)
MismatchResult(values, i, tr, resolution) == EmptyResult

\* case result := <-results, command.go:308-367.
SelectResult ==
    /\ pc = "select"
    /\ Len(results) > 0
    /\ results' = Tail(results)
    /\ LET values == Head(results)
           bad == FirstMismatch(values)
       IN  IF bad /= 0
           THEN Return(MismatchResult(values, bad, chosenTimerange, chosenResolution),
                       TypeMismatchError(bad))
           ELSE Return(SelectResultOf(values, chosenTimerange, chosenResolution),
                       NoError)
    /\ UNCHANGED <<prof, outerRet, written>>
    /\ UNCHANGED <<cmd, context, userTimerange, slotLimit, smallestResolution,
                   earliest, mutex, callers, widenIdx, requests, widenedStart, widenedTimerange,
                   chosenResolution, chosenTimerange, derived, timerFired,
                   parentCancelled, errors, taskPc, taskVal, sentBeforeDone,
                   deliveredAtFire>>

----------------------------------------------------------------------------
\* The describe commands.  A tag value and a metric name are the number they
\* are ordered by.

\* predicate.All(p, q)
All(p, q) == p \cap q

\* The elements of a list a predicate keeps, in order.
RECURSIVE Filter(_, _)
Filter(list, keep) ==
    IF list = <<>> THEN <<>>
    ELSE IF Head(list) \in keep THEN <<Head(list)>> \o Filter(Tail(list), keep)
    ELSE Filter(Tail(list), keep)

\* predicate.Apply(tagset)
Apply(predicate, tagset) == tagset \in predicate

\* command.go:110-121: keyValueSets after the loop over tagsets, a map of
\* tag key => set of the values it takes in the tag sets the predicate
\* applies to.
RECURSIVE KeyValueSets(_, _)
KeyValueSets(tagsets, predicate) ==
    IF tagsets = <<>> THEN [key \in {} |-> {}]
    ELSE LET sets == KeyValueSets(SubSeq(tagsets, 1, Len(tagsets) - 1), predicate)
             tagset == tagsets[Len(tagsets)]
         IN  IF Apply(predicate, tagset)
             THEN [key \in DOMAIN sets \cup DOMAIN tagset |->
                      (IF key \in DOMAIN sets THEN sets[key] ELSE {})
                          \cup (IF key \in DOMAIN tagset THEN {tagset[key]} ELSE {})]
             ELSE sets

\* The orders in which `for value := range set` may visit the values of a
\* set: Go leaves the iteration order of a map unspecified.
IterationOrders == {<<1, 2>>, <<2, 1>>}

\* command.go:124-127: the values of a set, appended in the order visited.
Listed(set, order) == SelectSeq(order, LAMBDA value : value \in set)

\* command.go:122-131: tag key => naturally sorted list of its values.
KeyValueListsUnsorted(tagsets, predicate, order) ==
    LET sets == KeyValueSets(tagsets, predicate)
    IN  [key \in DOMAIN sets |-> Listed(sets[key], order)]
KeyValueLists(tagsets, predicate, order) ==
    LET sets == KeyValueSets(tagsets, predicate)
    IN  [key \in DOMAIN sets |-> NaturalSort(Listed(sets[key], order))]

\* DescribeCommand.Execute, command.go:96-133.  The context holds what
\* context.MetricMetadataAPI.GetAllTags answers with when it does not fail.
DescribeExecute(predicate, additional, failed, tagsets, order) ==
    /\ pc = "idle"
    /\ cmd' = [kind |-> "describe", Predicate |-> predicate]
    /\ context' = [AdditionalConstraints |-> additional,
                   GetAllTags |-> IF failed THEN <<>> ELSE tagsets]
    /\ IF failed
       THEN Return(EmptyResult, BackendError)
       ELSE Return([Body |-> [kind |-> "tags",
                              lists |-> KeyValueLists(tagsets, All(predicate, additional),
                                                      order)],
                    Metadata |-> NilMetadata], NoError)
    /\ UNCHANGED <<userTimerange, slotLimit, smallestResolution, earliest, mutex, callers, widenIdx, requests,
                   widenedStart, widenedTimerange, chosenResolution,
                   chosenTimerange, derived, timerFired, parentCancelled,
                   results, errors, taskPc, taskVal, prof, outerRet, written,
                   sentBeforeDone, deliveredAtFire>>

\* DescribeAllCommand.Execute, command.go:140-160.
DescribeAllExecute(matcher, failed, metrics) ==
    /\ pc = "idle"
    /\ cmd' = [kind |-> "describe all", Matcher |-> matcher]
    /\ context' = [AdditionalConstraints |-> TagSetUniverse]
    /\ IF failed
       THEN Return(EmptyResult, BackendError)
       ELSE LET filtered == Sort(Filter(metrics, matcher))
            IN  Return([Body |-> [kind |-> "metrics", list |-> filtered],
                        Metadata |-> [count |-> Len(filtered)]],
                       NoError)
    /\ UNCHANGED <<userTimerange, slotLimit, smallestResolution, earliest, mutex, callers, widenIdx, requests,
                   widenedStart, widenedTimerange, chosenResolution,
                   chosenTimerange, derived, timerFired, parentCancelled,
                   results, errors, taskPc, taskVal, prof, outerRet, written,
                   sentBeforeDone, deliveredAtFire>>

\* DescribeMetricsCommand.Execute, command.go:167-180.
DescribeMetricsExecute(tagKey, tagValue, failed, metrics) ==
    /\ pc = "idle"
    /\ cmd' = [kind |-> "describe metrics", TagKey |-> tagKey, TagValue |-> tagValue]
    /\ context' = [AdditionalConstraints |-> TagSetUniverse]
    /\ IF failed
       THEN Return(EmptyResult, BackendError)
       ELSE Return([Body |-> [kind |-> "metrics", list |-> metrics],
                    Metadata |-> [count |-> Len(metrics)]],
                   NoError)
    /\ UNCHANGED <<userTimerange, slotLimit, smallestResolution, earliest, mutex, callers, widenIdx, requests,
                   widenedStart, widenedTimerange, chosenResolution,
                   chosenTimerange, derived, timerFired, parentCancelled,
                   results, errors, taskPc, taskVal, prof, outerRet, written,
                   sentBeforeDone, deliveredAtFire>>

----------------------------------------------------------------------------
\* ProfilingCommand.  prof.span is the name of the span of the whole call
\* once it is recorded, prof.profiles what cmd.Profiler.All() returned.

\* Name() of the four commands, and of a ProfilingCommand around one.
Name(command) == command.kind
ProfilingName(command) == Name(command)

\* fmt.Sprintf("%s.Execute", cmd.Name())
SpanName(command) == <<ProfilingName(command), ".Execute">>

\* The lists of profiles cmd.Profiler.All() may return after the inner call:
\* what the work under the inner command has recorded.
ProfileLists == {<<>>, <<"fetch">>}

\* command.go:393-395: the span of the whole call is opened (its recording
\* is deferred), the profiler is put into the context and the inner command
\* called.
ProfilingBegin ==
    /\ pc = "idle"
    /\ ~prof.wrapped
    /\ prof' = [wrapped |-> TRUE, spanOpen |-> TRUE, pc |-> "inner",
                span |-> <<>>, profiles |-> <<>>]
    /\ UNCHANGED <<pc, cmd, context, userTimerange, slotLimit, smallestResolution,
                   earliest, mutex, callers, widenIdx, requests, widenedStart, widenedTimerange,
                   chosenResolution, chosenTimerange, derived, cancelCalled,
                   timerFired, parentCancelled, results, errors, taskPc, taskVal,
                   ret, outerRet, written, sentBeforeDone, deliveredAtFire>>

\* What ProfilingCommand.Execute returns with an error of the inner command.
FailedResult(inner) == EmptyResult

\* if result.Metadata == nil { result.Metadata = map[string]interface{}{} }
\* result.Metadata["profile"] = profiles
SetProfile(metadata, profiles) ==
    LET keys == IF metadata = NilMetadata THEN {} ELSE DOMAIN metadata
    IN  [key \in keys \cup {"profile"} |->
            IF key = "profile" THEN profiles ELSE metadata[key]]

\* command.go:399-406: the profiles are attached when there are any.
WithProfileOnly(result, profiles) ==
    IF Len(profiles) = 0 THEN result
    ELSE [Body |-> result.Body, Metadata |-> SetProfile(NilMetadata, profiles)]
WithProfile(result, profiles) ==
    IF Len(profiles) = 0 THEN result
    ELSE [Body |-> result.Body, Metadata |-> SetProfile(result.Metadata, profiles)]

\* command.go:395-406: the inner command has returned; the deferred function
\* then records the span.
ProfilingEnd ==
    /\ prof.pc = "inner"
    /\ pc = "returned"
    /\ IF ret.err /= NoError
       THEN /\ outerRet' = [result |-> FailedResult(ret.result), err |-> ret.err]
            /\ prof' = [wrapped |-> TRUE, spanOpen |-> FALSE, pc |-> "returned",
                        span |-> SpanName(cmd), profiles |-> <<>>]
       ELSE \E profiles \in ProfileLists :
               /\ outerRet' = [result |-> WithProfile(ret.result, profiles),
                               err |-> NoError]
               /\ prof' = [wrapped |-> TRUE, spanOpen |-> FALSE, pc |-> "returned",
                           span |-> SpanName(cmd), profiles |-> profiles]
    /\ UNCHANGED <<pc, cmd, context, userTimerange, slotLimit, smallestResolution,
                   earliest, mutex, callers, widenIdx, requests, widenedStart, widenedTimerange,
                   chosenResolution, chosenTimerange, derived, cancelCalled,
                   timerFired, parentCancelled, results, errors, taskPc, taskVal,
                   ret, written, sentBeforeDone, deliveredAtFire>>

\* A panic of the inner command unwinds through ProfilingCommand.Execute,
\* whose deferred function records the span.
ProfilingUnwind ==
    /\ prof.pc = "inner"
    /\ pc = "panicked"
    /\ prof' = [wrapped |-> TRUE, spanOpen |-> FALSE, pc |-> "panicked",
                span |-> SpanName(cmd), profiles |-> <<>>]
    /\ UNCHANGED <<pc, cmd, context, userTimerange, slotLimit, smallestResolution,
                   earliest, mutex, callers, widenIdx, requests, widenedStart, widenedTimerange,
                   chosenResolution, chosenTimerange, derived, cancelCalled,
                   timerFired, parentCancelled, results, errors, taskPc, taskVal,
                   ret, outerRet, written, sentBeforeDone, deliveredAtFire>>

----------------------------------------------------------------------------
Next ==
    \/ \E predicate \in Predicates, additional \in Predicates,
          failed \in BOOLEAN, tagsets \in TagSetLists, order \in IterationOrders :
          DescribeExecute(predicate, additional, failed, tagsets, order)
    \/ \E matcher \in Matchers, failed \in BOOLEAN, metrics \in MetricLists :
          DescribeAllExecute(matcher, failed, metrics)
    \/ \E tagKey \in {"host", "dc"}, tagValue \in {1, 2},
          failed \in BOOLEAN, metrics \in MetricLists :
          DescribeMetricsExecute(tagKey, tagValue, failed, metrics)
    \/ ProfilingBegin
    \/ ProfilingEnd
    \/ ProfilingUnwind
    \/ \E start \in Starts, end \in Ends, resolution \in Resolutions,
          expressions \in ExpressionLists, limit \in SlotLimits,
          timeout \in Timeouts :
          SelectBegin(start, end, resolution, expressions, limit, timeout)
    \/ Widen
    \/ \E i \in 1..MaxExprs : WidestLock(i)
    \/ \E i \in 1..MaxExprs : WidestCompare(i)
    \/ \E i \in 1..MaxExprs : WidestStore(i)
    \/ \E i \in 1..MaxExprs : WidestUnlock(i)
    \/ BuildWidened
    \/ ChooseResolution
    \/ SnapChosen
    \/ StartEvaluation
    \/ EvaluateReturns
    \/ TaskSendError
    \/ TaskSendResult
    \/ TimeoutFires
    \/ ParentCancel
    \/ SelectDone
    \/ SelectError
    \/ SelectResult

Spec == Init /\ [][Next]_vars

\* The widening pass with the mode in general use: the calls for the
\* expressions of a select command may be in flight together.  The slot limit
\* and the timeout play no part in the pass and are left at zero.
ConcurrentNext ==
    \/ \E start \in Starts, end \in Ends, resolution \in Resolutions,
          expressions \in ExpressionLists :
          SelectBegin(start, end, resolution, expressions, 0, 0)
    \/ Widen
    \/ WidenConcurrently
    \/ \E i \in 1..MaxExprs : WidestLock(i)
    \/ \E i \in 1..MaxExprs : WidestCompare(i)
    \/ \E i \in 1..MaxExprs : WidestStore(i)
    \/ \E i \in 1..MaxExprs : WidestUnlock(i)
    \/ BuildWidened

ConcurrentWideningSpec == Init /\ [][ConcurrentNext]_vars

\* The goroutine running Execute proceeds when a case of its select statement
\* is ready, the runtime fires the timer of a derived context, and a send on a
\* channel with room completes.  Nothing makes EvaluateMany return.
FairSpec ==
    /\ Spec
    /\ WF_vars(SelectDone \/ SelectError \/ SelectResult)
    /\ WF_vars(TimeoutFires)
    /\ WF_vars(TaskSendError \/ TaskSendResult)

----------------------------------------------------------------------------
\* Properties.

IsSelect == cmd.kind = "select"

Returned == pc = "returned"

Failed(result, err) == [result |-> result, err |-> err]

\* C1: whenever a select command succeeds, the user's range at the chosen
\* resolution has floor((end - start) / resolution) + 1 <= slotLimit slots;
\* whenever it has more, Execute has returned an empty Result with the
\* LimitError carrying (slots, slotLimit), and no evaluation was started.
SlotCountWithinLimit ==
    IsSelect =>
        LET slots == (chosenTimerange.end - chosenTimerange.start)
                         \div chosenTimerange.resolution + 1
        IN  /\ Returned /\ ret.err = NoError =>
                  /\ chosenTimerange.ok
                  /\ slots <= slotLimit
            /\ chosenTimerange.ok /\ slots > slotLimit =>
                  /\ Returned
                  /\ ret = Failed(EmptyResult, NewLimitError(SlotMessage, slots, slotLimit))
                  /\ taskPc = "none"
            /\ taskPc /= "none" => chosenTimerange.ok /\ slots <= slotLimit

\* A select command failed with one slot more than the limit.
SlotLimitExceededByOne ==
    /\ IsSelect
    /\ Returned
    /\ chosenTimerange.ok
    /\ Slots(chosenTimerange) = slotLimit + 1
    /\ ret.err = NewLimitError(SlotMessage, slotLimit + 1, slotLimit)

\* C2, as stated: with a non-zero timeout, when the timer fired before the
\* task had delivered anything, Execute returns the timeout LimitError and an
\* empty Result.
TimeoutFiredFirstGivesLimitError ==
    IsSelect /\ Returned /\ timerFired /\ ~deliveredAtFire =>
        ret = Failed(EmptyResult,
                     NewLimitError(TimeoutMessage, context.Timeout, context.Timeout))

\* C2, amended: with a non-zero timeout, when the timer has fired and the task
\* has still delivered nothing at the moment the select statement chooses,
\* Execute returns the timeout LimitError and an empty Result; and what Execute
\* returned never changes afterwards, whatever the task goes on to send.
TimeoutWithNothingDeliveredGivesLimitError ==
    /\ [][pc = "select" /\ pc' = "returned" /\ timerFired /\ ~Delivered =>
              /\ context.Timeout /= 0
              /\ ret' = Failed(EmptyResult,
                               NewLimitError(TimeoutMessage, context.Timeout,
                                             context.Timeout))]_vars
    /\ [][Returned => ret' = ret /\ pc' = pc]_vars

\* Execute returned the timeout LimitError and the orphaned task has since
\* sent its result.
OrphanedResultAfterTimeout ==
    /\ IsSelect
    /\ Returned
    /\ ret = Failed(EmptyResult, TimeoutError(context.Timeout))
    /\ context.Timeout /= 0
    /\ timerFired
    /\ ~deliveredAtFire
    /\ taskPc = "done"
    /\ Len(results) = 1

\* C3: a send of the task can always proceed (also after Execute has
\* returned), so the task ends once EvaluateMany has returned; neither channel
\* ever holds more than one message, and the task writes at most one of them.
TaskSending == taskPc \in {"sendError", "sendResult"}

TaskSendNeverBlocks ==
    /\ [](/\ taskPc = "sendError" => CanSend(errors)
          /\ taskPc = "sendResult" => CanSend(results)
          /\ Len(errors) <= 1
          /\ Len(results) <= 1
          /\ Cardinality(written) <= 1)
    /\ (TaskSending ~> taskPc = "done")

\* The task sent its error after Execute had returned on the timeout branch.
OrphanedErrorAfterReturn ==
    /\ IsSelect
    /\ Returned
    /\ ret.err = TimeoutError(context.Timeout)
    /\ ~sentBeforeDone
    /\ taskPc = "done"
    /\ written = {"errors"}
    /\ Len(errors) = 1

\* C4: with a non-zero timeout the wait of Execute ends, also when the task
\* never delivers; with a zero timeout and the caller's context not cancelled,
\* the wait ends only with a result or an error in a channel.
WaitIsBounded ==
    /\ (pc = "select" /\ context.Timeout /= 0) ~> Returned
    /\ [][pc = "select" /\ pc' /= "select" /\ context.Timeout = 0 /\ ~parentCancelled
              => Delivered]_vars

\* Execute returned on the timeout while EvaluateMany was still running.
ReturnedWhileEvaluating ==
    /\ IsSelect
    /\ Returned
    /\ timerFired
    /\ ~parentCancelled
    /\ taskPc = "evaluating"

\* C5, as stated: when the task delivered before the context was done,
\* Execute does not return the timeout LimitError.
DeliveredFirstIsReturned ==
    IsSelect /\ Returned /\ sentBeforeDone =>
        ret.err /= TimeoutError(context.Timeout)

\* C5, amended: when the task has delivered and the context is still not done
\* at the moment the select statement chooses, Execute returns what the task
\* delivered (its error, or the Result assembled from its values) and not the
\* timeout LimitError.  (With both ready, either is returned.)
DeliveredAndNotDoneIsReturned ==
    [][pc = "select" /\ pc' = "returned" /\ Delivered
           /\ ~parentCancelled /\ ~timerFired =>
          /\ ret'.err /= TimeoutError(context.Timeout)
          /\ Len(errors) > 0 => ret' = Failed(EmptyResult, Head(errors))
          /\ Len(results) > 0 =>
                \/ ret' = Failed(SelectResultOf(Head(results), chosenTimerange,
                                                chosenResolution), NoError)
                \/ ret'.err = TypeMismatchError(FirstMismatch(Head(results)))]_vars

\* Execute returned the task's result although a timeout was configured.
ResultBeatsTimeout ==
    /\ IsSelect
    /\ Returned
    /\ context.Timeout /= 0
    /\ sentBeforeDone
    /\ ~timerFired
    /\ ret.err = NoError
    /\ Len(cmd.Expressions) > 0

\* C6: a derived context is created exactly when the timeout is non-zero and
\* Execute reaches command.go:262, and its cancel function has been called
\* whenever Execute has returned.
DerivedContextReleased ==
    IsSelect =>
        /\ context.Timeout = 0 => ~derived
        /\ context.Timeout /= 0 /\ taskPc /= "none" => derived
        /\ derived /\ Returned => cancelCalled
        /\ ~derived => ~cancelCalled

\* Execute failed on a value of the wrong type with a derived context.
MismatchWithDerivedContext ==
    /\ IsSelect
    /\ Returned
    /\ derived
    /\ cancelCalled
    /\ ret.err = TypeMismatchError(1)

\* C7: during and after the widening pass earliest is not after the start of
\* the user's range; with no expressions it is that start, and the widened
\* range is the user's.
InWidening == IsSelect /\ pc = "widening"
PastWidening ==
    /\ IsSelect
    /\ \/ pc \in {"chooseResolution", "snapChosen", "startEvaluation"}
       \/ Returned /\ userTimerange.ok /\ taskPc = "none"

EarliestNotAfterStart ==
    /\ InWidening \/ PastWidening => ~Before(StartTime(userTimerange), earliest)
    /\ PastWidening /\ cmd.Expressions = <<>> =>
          /\ earliest = StartTime(userTimerange)
          /\ widenedTimerange = userTimerange

\* An expression asked for a later start after another had lowered earliest.
LoweredThenShiftedForward ==
    /\ PastWidening
    /\ Len(requests) = 2
    /\ Before(requests[1], StartTime(userTimerange))
    /\ Before(StartTime(userTimerange), requests[2])
    /\ earliest = requests[1]

\* C8: after the widening pass earliest is the least of the start of the
\* user's range and the starts the expressions asked for, whatever the order
\* of the expressions and however the steps of their calls, each made while
\* holding the mutex, interleave: no lowering that was asked for is lost.
RequestedStarts ==
    {StartTime(userTimerange)} \cup {requests[i] : i \in DOMAIN requests}

EarliestIsMinimum ==
    PastWidening =>
        /\ Len(requests) = Len(cmd.Expressions)
        /\ earliest \in RequestedStarts
        /\ \A t \in RequestedStarts : ~Before(t, earliest)

\* Two calls were in flight together and the second took the mutex first: it
\* lowered earliest to its start, and the first call, which asked for a still
\* earlier one, lowered it again.
LowestStoredLast ==
    /\ PastWidening
    /\ Len(requests) = 2
    /\ Before(requests[1], requests[2])
    /\ Before(requests[2], StartTime(userTimerange))
    /\ callers[1].lower
    /\ callers[2].lower
    /\ earliest = requests[1]

\* C9: the step that builds the widened range always goes on to
\* ChooseResolution with a valid range, which is the user's range when the
\* widened one cannot be constructed; it never returns.
WidenedSnapFails ==
    ~NewSnappedTimerange(widenedStart, EndMillis(userTimerange),
                         ResolutionMillis(userTimerange)).ok

InvalidWideningFallsBack ==
    /\ [][pc = "widening" /\ pc' /= "widening" => pc' = "chooseResolution"]_vars
    /\ [](IsSelect /\ pc = "chooseResolution" =>
            /\ widenedTimerange.ok
            /\ WidenedSnapFails => widenedTimerange = userTimerange)

\* The widened range could not be constructed and the user's range is used.
FellBackToUserRange ==
    /\ IsSelect
    /\ pc = "chooseResolution"
    /\ WidenedSnapFails
    /\ widenedTimerange = userTimerange

\* C10: every command that returns an error returns the empty Result with it.
NoPartialResult ==
    /\ Returned /\ ret.err /= NoError => ret.result = EmptyResult
    /\ prof.pc = "returned" /\ outerRet.err /= NoError =>
          outerRet.result = EmptyResult

\* A profiled select failed on its second value after classifying the first.
MismatchAfterClassified ==
    /\ IsSelect
    /\ prof.pc = "returned"
    /\ outerRet = Failed(EmptyResult, TypeMismatchError(2))
    /\ IsSeriesListValue(taskVal[1])

\* The select statement took the values the task delivered (command.go:308).
ResultTaken ==
    /\ IsSelect
    /\ Returned
    /\ taskPc = "done"
    /\ ret.err.type \in {"nil", "TypeMismatch"}

\* C11, as stated: of the values of a successful evaluation, one that
\* ToSeriesList converts gives a body entry of type "series" with its series
\* and the chosen range; one it does not convert and ToScalarSet converts
\* gives an entry of type "scalars" with those scalars; when a value converts
\* neither way Execute fails with the error naming its expression; the body
\* has one entry per expression, in the order of the expressions.
InterpretableValueIsTyped ==
    ResultTaken =>
        LET asSeries(i) == taskVal[i].seriesList
            asScalars(i) == taskVal[i].scalarSet
            neither == {i \in DOMAIN taskVal : ~asSeries(i).ok /\ ~asScalars(i).ok}
        IN  IF neither = {}
            THEN /\ ret.err = NoError
                 /\ DOMAIN ret.result.Body.list = DOMAIN cmd.Expressions
                 /\ \A i \in DOMAIN taskVal :
                       LET entry == ret.result.Body.list[i]
                       IN  /\ entry.Expression = i
                           /\ asSeries(i).ok =>
                                 /\ entry.Type = "series"
                                 /\ entry.Series = asSeries(i).list
                                 /\ entry.Timerange = chosenTimerange
                           /\ ~asSeries(i).ok =>
                                 /\ entry.Type = "scalars"
                                 /\ entry.Scalars = asScalars(i).list
            ELSE /\ ret.err.type = "TypeMismatch"
                 /\ ret.err.expression \in neither

\* C11, amended: a value whose dynamic type is SeriesListValue gives a body
\* entry of type "series" with its series and the chosen range; any other
\* value that ToScalarSet converts gives an entry of type "scalars" with those
\* scalars (also when ToSeriesList would convert it); when some value is
\* neither, Execute fails with the empty Result and the error naming the
\* first such expression; the body has one entry per expression, in the order
\* of the expressions.
TypedBodyPerExpression ==
    ResultTaken =>
        LET isSeries(i) == taskVal[i].type = "SeriesListValue"
            asScalars(i) == taskVal[i].scalarSet
            neither == {i \in DOMAIN taskVal : ~isSeries(i) /\ ~asScalars(i).ok}
        IN  IF neither = {}
            THEN /\ ret.err = NoError
                 /\ DOMAIN ret.result.Body.list = DOMAIN cmd.Expressions
                 /\ \A i \in DOMAIN taskVal :
                       LET entry == ret.result.Body.list[i]
                       IN  /\ entry.Expression = i
                           /\ isSeries(i) =>
                                 /\ entry.Type = "series"
                                 /\ entry.Series = taskVal[i].Series
                                 /\ entry.Timerange = chosenTimerange
                           /\ ~isSeries(i) =>
                                 /\ entry.Type = "scalars"
                                 /\ entry.Scalars = asScalars(i).list
            ELSE /\ ret.result = EmptyResult
                 /\ ret.err.type = "TypeMismatch"
                 /\ ret.err.expression \in neither
                 /\ \A j \in neither : ret.err.expression <= j

\* A select command succeeded with a series list first and a scalar set that
\* ToSeriesList converts second.
SeriesThenConvertibleScalars ==
    /\ ResultTaken
    /\ ret.err = NoError
    /\ Len(taskVal) = 2
    /\ taskVal[1].type = "SeriesListValue"
    /\ taskVal[2].type = "ScalarSet"
    /\ taskVal[2].seriesList.ok
    /\ ret.result.Body.list[1].Type = "series"
    /\ ret.result.Body.list[2].Type = "scalars"

\* C12, as stated: in the description of a successful select, the keys are
\* the tag keys of the series of the series-list results, and the list of a
\* key holds exactly the values the key takes in those series, in strictly
\* ascending natural order.
SeriesListTagSets ==
    UNION {{taskVal[i].Series[j] : j \in DOMAIN taskVal[i].Series} :
             i \in {k \in DOMAIN taskVal : IsSeriesListValue(taskVal[k])}}

DescriptionOfSeriesListResults ==
    ResultTaken /\ ret.err = NoError =>
        LET description == ret.result.Metadata.description
        IN  /\ DOMAIN description = UNION {DOMAIN t : t \in SeriesListTagSets}
            /\ \A key \in DOMAIN description :
                  LET list == description[key]
                  IN  /\ {list[i] : i \in DOMAIN list} =
                            {t[key] : t \in {u \in SeriesListTagSets : key \in DOMAIN u}}
                      /\ \A i, j \in DOMAIN list : i < j => list[i] < list[j]

\* C12: in the description of a successful select, the keys are the tag keys
\* of the series of the results ToSeriesList converts (a scalar set it
\* converts among them), and the list of a key holds exactly the values the
\* key takes in those series, in strictly ascending natural order (so none
\* twice), whatever the order and the multiplicity of the values in the
\* results.
DescribedTagSets ==
    UNION {{taskVal[i].seriesList.list[j] : j \in DOMAIN taskVal[i].seriesList.list} :
             i \in {k \in DOMAIN taskVal : taskVal[k].seriesList.ok}}

DescriptionIsSortedSet ==
    ResultTaken /\ ret.err = NoError =>
        LET description == ret.result.Metadata.description
        IN  /\ DOMAIN description = UNION {DOMAIN t : t \in DescribedTagSets}
            /\ \A key \in DOMAIN description :
                  LET list == description[key]
                  IN  /\ {list[i] : i \in DOMAIN list} =
                            {t[key] : t \in {u \in DescribedTagSets : key \in DOMAIN u}}
                      /\ \A i, j \in DOMAIN list : i < j => list[i] < list[j]

\* The values b, a, a, c of one result and 4 of a scalar set that ToSeriesList
\* converts gave the list a, b, c, 4.
DuplicatesAcrossResults ==
    /\ ResultTaken
    /\ ret.err = NoError
    /\ Len(taskVal) = 2
    /\ Appended(DescribedSeries(taskVal, chosenTimerange), "host") = <<2, 1, 1, 3, 4>>
    /\ ret.result.Metadata.description["host"] = <<1, 2, 3, 4>>
    /\ ret.result.Metadata.description["dc"] = <<1>>

\* C13: the Body of a successful describe command maps exactly the keys of
\* the tag sets that satisfy both the command's predicate and the additional
\* constraint to the strictly ascending list of the values the key takes in
\* them, and it is the Body Execute gives for every permutation of the list
\* GetAllTags answered with (and every order of iterating the sets).
SatisfyingTagSets ==
    {context.GetAllTags[i] : i \in DOMAIN context.GetAllTags}
        \cap cmd.Predicate \cap context.AdditionalConstraints

Permuted(list, p) == [i \in DOMAIN list |-> list[p[i]]]

DescribeIsOrderIndependent ==
    cmd.kind = "describe" /\ Returned /\ ret.err = NoError =>
        LET body == ret.result.Body.lists
        IN  /\ DOMAIN body = UNION {DOMAIN t : t \in SatisfyingTagSets}
            /\ \A key \in DOMAIN body :
                  /\ {body[key][i] : i \in DOMAIN body[key]} =
                        {t[key] : t \in {u \in SatisfyingTagSets : key \in DOMAIN u}}
                  /\ \A i, j \in DOMAIN body[key] : i < j => body[key][i] < body[key][j]
            /\ \A p \in Permutations(DOMAIN context.GetAllTags),
                  order \in IterationOrders :
                  KeyValueLists(Permuted(context.GetAllTags, p),
                                All(cmd.Predicate, context.AdditionalConstraints),
                                order) = body

\* GetAllTags listed the tag set with the greater host first and the Body
\* lists the hosts ascending.
DescribedOutOfOrder ==
    /\ cmd.kind = "describe"
    /\ Returned
    /\ ret.err = NoError
    /\ context.GetAllTags = <<[host |-> 2, dc |-> 1], [host |-> 1]>>
    /\ DOMAIN ret.result.Body.lists = {"host", "dc"}
    /\ ret.result.Body.lists["host"] = <<1, 2>>
    /\ ret.result.Body.lists["dc"] = <<1>>

\* C14: when a ProfilingCommand has returned, the span of the whole call is
\* closed and carries the name of the inner command; with an error of the
\* inner command it returned that error with the empty Result; else it
\* returned the inner Body, every Metadata entry of the inner Result
\* unchanged and no other but "profile", which holds the profiles recorded
\* and is there exactly when there are any.  The span is closed also when
\* the inner command panics.
MetadataKeys(result) ==
    IF result.Metadata = NilMetadata THEN {} ELSE DOMAIN result.Metadata

ProfilingKeepsSemantics ==
    /\ prof.pc = "panicked" => ~prof.spanOpen
    /\ prof.pc = "returned" =>
          /\ ~prof.spanOpen
          /\ prof.span = <<cmd.kind, ".Execute">>
          /\ ret.err /= NoError => outerRet = Failed(EmptyResult, ret.err)
          /\ ret.err = NoError =>
                /\ outerRet.err = NoError
                /\ outerRet.result.Body = ret.result.Body
                /\ MetadataKeys(outerRet.result) \ {"profile"} = MetadataKeys(ret.result)
                /\ \A key \in MetadataKeys(ret.result) :
                      outerRet.result.Metadata[key] = ret.result.Metadata[key]
                /\ "profile" \in MetadataKeys(outerRet.result) <=> prof.profiles /= <<>>
                /\ "profile" \in MetadataKeys(outerRet.result) =>
                      outerRet.result.Metadata["profile"] = prof.profiles

\* A profiled select succeeded and its Metadata holds the profiles beside
\* the resolution.
ProfiledSelectSucceeded ==
    /\ IsSelect
    /\ prof.pc = "returned"
    /\ outerRet.err = NoError
    /\ MetadataKeys(outerRet.result) = {"description", "notes", "resolution", "profile"}
    /\ outerRet.result.Metadata["profile"] = <<"fetch">>
    /\ outerRet.result.Metadata["resolution"] = chosenResolution

\* C15, as stated: the smallest resolution handed to ChooseResolution with
\* the widened range is the duration of the widened range divided by
\* slotLimit - 2 (stated here for the slot limits greater than 2 alone, where
\* the division is not in question).
MinimumResolutionFromWidenedRange ==
    IsSelect /\ pc = "chooseResolution" /\ context.SlotLimit > 2 =>
        smallestResolution = GoDiv(Duration(widenedTimerange), slotLimit - 2)

\* C15, amended: the smallest resolution handed to ChooseResolution with the
\* widened range is the duration of the user's snapped range divided by
\* slotLimit - 2, whatever the expressions asked of the widening pass.
MinimumResolutionFromUserRange ==
    IsSelect /\ pc = "chooseResolution" =>
        smallestResolution =
            GoDiv((userTimerange.end - userTimerange.start) * NanosPerMilli,
                  slotLimit - 2)

\* ChooseResolution is about to be called with a range that was widened and
\* the smallest resolution of the shorter range of the user.
WidenedRangeWithUserMinimum ==
    /\ IsSelect
    /\ pc = "chooseResolution"
    /\ slotLimit = 3
    /\ userTimerange.end > userTimerange.start
    /\ widenedTimerange.start < userTimerange.start
    /\ widenedTimerange.end = userTimerange.end
    /\ smallestResolution = Duration(userTimerange)
    /\ smallestResolution < Duration(widenedTimerange)

\* C16: a select command works with the default limit of 1000 slots when
\* context.SlotLimit is zero or negative and with context.SlotLimit when it
\* is positive, both in the smallest resolution handed to ChooseResolution
\* and in the check of the slots of the chosen range.
SlotLimitAsStated ==
    IF context.SlotLimit <= 0 THEN defaultLimit ELSE context.SlotLimit

NonPositiveSlotLimitDefaults ==
    IsSelect /\ userTimerange.ok =>
        /\ slotLimit = SlotLimitAsStated
        /\ pc = "chooseResolution" =>
              smallestResolution = GoDiv(Duration(userTimerange), SlotLimitAsStated - 2)
        /\ Returned /\ ret.err.type = "Limit" /\ ret.err.message = SlotMessage =>
              ret.err.limit = SlotLimitAsStated
        /\ chosenTimerange.ok /\ Slots(chosenTimerange) <= SlotLimitAsStated =>
              ret.err.type /= "Limit" \/ ret.err.message /= SlotMessage

\* C17: with a slot limit greater than 2, when the storage backend has
\* chosen a resolution that is at least smallestResolution, the user's range
\* snapped at that resolution in whole milliseconds has at most slotLimit
\* slots and Execute does not fail with the LimitError of the slot check.
SlotLimitError(err) == err.type = "Limit" /\ err.message = SlotMessage

TwoSlotMarginSuffices ==
    /\ IsSelect
    /\ slotLimit > 2
    /\ pc \notin {"idle", "widening", "chooseResolution", "snapChosen"}
    /\ chosenResolution >= smallestResolution
    /\ chosenTimerange.ok
    => /\ Slots(chosenTimerange) <= slotLimit
       /\ ~SlotLimitError(ret.err)

\* C18: the chosen range is the range from the user's snapped start to the
\* user's snapped end at the resolution the backend chose, in whole
\* milliseconds, whatever earliest and the widened range are; and it is the
\* range every "series" entry of the body carries.
ReportedRangeFromUserRange ==
    IsSelect /\ chosenTimerange.ok =>
        /\ chosenTimerange =
              NewSnappedTimerange(userTimerange.start, userTimerange.end,
                                  GoDiv(chosenResolution, NanosPerMilli))
        /\ ResultTaken /\ ret.err = NoError =>
              \A i \in DOMAIN ret.result.Body.list :
                  ret.result.Body.list[i].Type = "series" =>
                      ret.result.Body.list[i].Timerange = chosenTimerange

\* The range was widened to an earlier start, and the chosen range still
\* starts where the user's does.
WidenedButReportedFromUser ==
    /\ IsSelect
    /\ pc = "startEvaluation"
    /\ Before(earliest, StartTime(userTimerange))
    /\ widenedTimerange.start < userTimerange.start
    /\ chosenTimerange.ok
    /\ chosenTimerange.resolution = userTimerange.resolution
    /\ chosenTimerange.start = userTimerange.start
    /\ chosenTimerange.end = userTimerange.end

\* C19: Execute returns the LimitError of the timeout only when a timeout
\* other than zero is configured and its deadline has passed; a cancellation
\* of the caller's own context is not returned as that error.
TimeoutLimitError(err) == err.type = "Limit" /\ err.message = TimeoutMessage

TimeoutErrorOnlyOnTimeout ==
    IsSelect /\ Returned /\ TimeoutLimitError(ret.err) =>
        /\ context.Timeout /= 0
        /\ timerFired

\* C20: for every slot limit the smallest resolution is computed without a
\* division by zero and is not negative when it is handed to
\* ChooseResolution, so that Execute does not panic.
SmallestResolutionWellDefined ==
    IsSelect =>
        /\ pc /= "panicked"
        /\ pc = "chooseResolution" => smallestResolution >= 0

====
